---------------------------- MODULE Spec2Model ----------------------------
(***************************************************************************)
(* Fuzzy, frequency-ranked sentence autocomplete: the prefix trie of       *)
(* enhanced-trie.js, the edit-distance matcher of fuzzy-matcher.js and the *)
(* orchestrator FuzzyTrieAutocomplete of script.js.                        *)
(*                                                                         *)
(* A JavaScript string is modelled as a sequence of one-character strings. *)
(***************************************************************************)
EXTENDS Integers, Sequences, FiniteSets, TLC

VARIABLES
    root,             \* EnhancedTrie.root and its descendants: path -> TrieNode
    totalInsertions,  \* EnhancedTrie.totalInsertions
    maxDistance,      \* FuzzyMatcher.maxDistance of the orchestrator's matcher
    now,              \* the value Date.now() returns
    ops,              \* number of insert / recordSelection calls made so far
    onlyInserted,     \* history: the one sentence all calls so far inserted
    lastOp,           \* the last call: [name, arg, limit]
    result,           \* what the last call returned (or that it threw)
    word1,            \* inputs of the matcher's pure functions
    word2,
    word3,
    distanceArg       \* maxDistance the pure getVariations call is made with

vars == <<root, totalInsertions, maxDistance, now, ops, onlyInserted, lastOp,
          result, word1, word2, word3, distanceArg>>

-----------------------------------------------------------------------------
(* Bounds of the model. *)

MaxLen == 2          \* longest sentence passed to insert / recordSelection
MaxQueryLen == 1     \* longest query passed to a lookup action
MaxLimit == 1        \* largest limit passed to a lookup action
MaxOps == 3          \* insert / recordSelection calls in one behaviour
MaxTime == 1         \* how many times the clock advances
MaxWordLen == 3      \* longest string a distance is computed for
MaxVarLen == 2       \* longest word variations are generated for
MaxK == 2            \* largest maxDistance variations are generated with
MaxTextLen == 2      \* longest stored text a candidate is ranked with
MaxLookupK == 1      \* largest maxDistance of an orchestrator asked two-character queries

-----------------------------------------------------------------------------
(* Strings. *)

SentenceChars == {"a", "A", " "}       \* characters of inserted sentences
QueryChars == {"a", "A", "b"}          \* characters of looked-up queries
WordChars == {"a", "b"}                \* characters of distance inputs
VarChars == {"a", "A", "b", " "}       \* characters of variation inputs

Strings(S, n) == UNION {[1..m -> S] : m \in 0..n}

Range(s) == {s[i] : i \in 1..Len(s)}

Min(S) == CHOOSE x \in S : \A y \in S : x <= y
Max(S) == CHOOSE x \in S : \A y \in S : x >= y

\* String.prototype.toLowerCase, character by character.
LowerChar(c) ==
    CASE c = "A" -> "a"
      [] c = "B" -> "b"
      [] OTHER -> c

toLowerCase(s) == [i \in 1..Len(s) |-> LowerChar(s[i])]

IsWhiteSpace(c) == c = " "

\* String.prototype.trim: strips leading and trailing white space.
trim(s) ==
    LET keep == {i \in 1..Len(s) : ~IsWhiteSpace(s[i])}
    IN  IF keep = {} THEN <<>> ELSE SubSeq(s, Min(keep), Max(keep))

\* String.prototype.slice(i) / slice(i, j) with 0-based i, j as in the source.
sliceFrom(s, i) == SubSeq(s, i + 1, Len(s))
sliceTo(s, i, j) == SubSeq(s, i + 1, IF j < Len(s) THEN j ELSE Len(s))

\* Array.prototype.slice(0, limit) for a non-negative integer limit.
slice0(seq, limit) == SubSeq(seq, 1, IF limit < Len(seq) THEN limit ELSE Len(seq))

\* JavaScript truthiness of a string: "" is falsy.
Truthy(s) == s # <<>>

\* Array.prototype.sort with a comparator, which is stable: an element goes
\* after every element the comparator puts before it and after every earlier
\* element it compares equal to. cmp[i][j] is the comparator's value for
\* (seq[i], seq[j]): negative puts seq[i] first.
sort(seq, cmp) ==
    LET before(i) == {j \in 1..Len(seq) :
                        \/ cmp[j][i] < 0
                        \/ cmp[j][i] = 0 /\ cmp[i][j] = 0 /\ j < i}
    IN  [k \in 1..Len(seq) |->
            seq[CHOOSE i \in 1..Len(seq) : Cardinality(before(i)) = k - 1]]

-----------------------------------------------------------------------------
(* enhanced-trie.js *)

\* new TrieNode(). children holds the keys of the children object in the
\* order a for-in loop enumerates them.
\* Mutant: a new node starts with frequency 1.
TrieNode_frequencyOne ==
    [children |-> <<>>, isEndOfWord |-> FALSE, fullSentence |-> <<>>,
     frequency |-> 1, lastUsed |-> 0]

TrieNode ==
    [children |-> <<>>, isEndOfWord |-> FALSE, fullSentence |-> <<>>,
     frequency |-> 0, lastUsed |-> 0]

\* new EnhancedTrie(): a root node and no insertions.
EmptyRoot == [p \in {<<>>} |-> TrieNode]

Digits == <<"0", "1", "2", "3", "4", "5", "6", "7", "8", "9">>
IsDigit(c) == c \in Range(Digits)
DigitValue(c) == CHOOSE i \in 1..Len(Digits) : Digits[i] = c

\* node.children[char] = new TrieNode(): own-property order of an object puts
\* integer-like keys first, ascending, then the other keys as they were added.
addKey(children, c) ==
    IF IsDigit(c)
    THEN LET before == {i \in 1..Len(children) :
                            IsDigit(children[i]) /\ DigitValue(children[i]) < DigitValue(c)}
             n == Cardinality(before)
         IN  SubSeq(children, 1, n) \o <<c>> \o SubSeq(children, n + 1, Len(children))
    ELSE Append(children, c)

\* Mutant: processSentence forgets to lower-case.
processSentence_noLowerCase(text) == text

\* processSentence(text): lower-cases, keeps spaces.
processSentence(text) == toLowerCase(text)

\* !node.children[char] is false
hasChild(t, p, c) == c \in Range(t[p].children)

\* The loop of insert: walk the key from the node at path SubSeq(key,1,i-1),
\* creating the nodes that are missing.
RECURSIVE insertWalk(_, _, _)
insertWalk(t, key, i) ==
    IF i > Len(key) THEN t
    ELSE LET parent == SubSeq(key, 1, i - 1)
             child == SubSeq(key, 1, i)
         IN  IF hasChild(t, parent, key[i]) THEN insertWalk(t, key, i + 1)
             ELSE insertWalk(
                    [p \in DOMAIN t \cup {child} |->
                        IF p = child THEN TrieNode
                        ELSE IF p = parent
                             THEN [t[p] EXCEPT !.children = addKey(@, key[i])]
                             ELSE t[p]],
                    key, i + 1)

\* Mutant: insert sets the frequency to 1 where it should count up.
insertRoot_frequencyOne(t, sentence, time) ==
    IF ~Truthy(sentence) THEN t
    ELSE LET key == toLowerCase(sentence)
             walked == insertWalk(t, key, 1)
         IN  [walked EXCEPT ![key] =
                 [@ EXCEPT !.isEndOfWord = TRUE,
                           !.fullSentence = trim(sentence),
                           !.frequency = 1,
                           !.lastUsed = time]]

\* Mutant: insert keeps the text an entry already has.
insertRoot_keepsFirstText(t, sentence, time) ==
    IF ~Truthy(sentence) THEN t
    ELSE LET key == processSentence(sentence)
             walked == insertWalk(t, key, 1)
         IN  [walked EXCEPT ![key] =
                 [@ EXCEPT !.isEndOfWord = TRUE,
                           !.fullSentence = IF walked[key].isEndOfWord THEN @
                                            ELSE trim(sentence),
                           !.frequency = @ + 1,
                           !.lastUsed = time]]

\* EnhancedTrie.insert(sentence): the tree after the call at time t.
insertRoot(t, sentence, time) ==
    IF ~Truthy(sentence) THEN t
    ELSE LET key == processSentence(sentence)
             walked == insertWalk(t, key, 1)
         IN  [walked EXCEPT ![key] =
                 [@ EXCEPT !.isEndOfWord = TRUE,
                           !.fullSentence = trim(sentence),
                           !.frequency = @ + 1,
                           !.lastUsed = time]]

\* Mutant: insert counts the call before its guard.
insertCount_beforeGuard(n, sentence) == n + 1

\* EnhancedTrie.insert(sentence): totalInsertions after the call.
insertCount(n, sentence) == IF ~Truthy(sentence) THEN n ELSE n + 1

\* Mutant: at a missing child the walk stops at the node it has reached.
RECURSIVE walk_partial(_, _, _)
walk_partial(t, key, i) ==
    IF i > Len(key) THEN [found |-> TRUE, node |-> key]
    ELSE IF ~hasChild(t, SubSeq(key, 1, i - 1), key[i])
         THEN [found |-> TRUE, node |-> SubSeq(key, 1, i - 1)]
         ELSE walk_partial(t, key, i + 1)

\* The loop of autocomplete / recordSelection: walk the key, give up at the
\* first missing child.
RECURSIVE walk(_, _, _)
walk(t, key, i) ==
    IF i > Len(key) THEN [found |-> TRUE, node |-> key]
    ELSE IF ~hasChild(t, SubSeq(key, 1, i - 1), key[i])
         THEN [found |-> FALSE, node |-> <<>>]
         ELSE walk(t, key, i + 1)

\* findAllWords(node, results): pre-order, children in for-in order.
RECURSIVE findAllWords(_, _)
RECURSIVE findInChildren(_, _, _)
\* Mutant: a terminal node that has children is not collected.
findAllWords_leavesOnly(t, p) ==
    (IF t[p].isEndOfWord /\ Len(t[p].children) = 0
     THEN <<[text |-> t[p].fullSentence, frequency |-> t[p].frequency,
             lastUsed |-> t[p].lastUsed]>>
     ELSE <<>>)
    \o findInChildren(t, p, 1)

findAllWords(t, p) ==
    (IF t[p].isEndOfWord
     THEN <<[text |-> t[p].fullSentence, frequency |-> t[p].frequency,
             lastUsed |-> t[p].lastUsed]>>
     ELSE <<>>)
    \o findInChildren(t, p, 1)
findInChildren(t, p, i) ==
    IF i > Len(t[p].children) THEN <<>>
    ELSE findAllWords(t, Append(p, t[p].children[i])) \o findInChildren(t, p, i + 1)

\* Mutant: the comparator of rankSuggestions looks at lastUsed only.
bySuggestionRank_recencyOnly(a, b) == b.lastUsed - a.lastUsed

\* The comparator of rankSuggestions: frequency descending, then lastUsed
\* descending.
bySuggestionRank(a, b) ==
    IF b.frequency - a.frequency # 0 THEN b.frequency - a.frequency
    ELSE b.lastUsed - a.lastUsed

\* The comparator of rankSuggestions on every pair of the array.
bySuggestionRankAll(seq) ==
    [i \in 1..Len(seq) |-> [j \in 1..Len(seq) |-> bySuggestionRank(seq[i], seq[j])]]

\* Mutant: rankSuggestions forgets slice(0, limit).
rankSuggestions_noSlice(suggestions, limit) ==
    LET sorted == sort(suggestions, bySuggestionRankAll(suggestions))
    IN  [i \in 1..Len(sorted) |-> sorted[i].text]

\* rankSuggestions(suggestions, limit): sort, slice(0, limit), map to text.
rankSuggestions(suggestions, limit) ==
    LET cut == slice0(sort(suggestions, bySuggestionRankAll(suggestions)), limit)
    IN  [i \in 1..Len(cut) |-> cut[i].text]

\* Mutant: autocomplete without the early return for an empty prefix.
trieAutocomplete_noEmptyGuard(t, prefix, limit) ==
    LET w == walk(t, processSentence(prefix), 1)
    IN  IF ~w.found THEN <<>>
        ELSE rankSuggestions(findAllWords(t, w.node), limit)

\* EnhancedTrie.autocomplete(prefix, limit)
trieAutocomplete(t, prefix, limit) ==
    IF ~Truthy(prefix) THEN <<>>
    ELSE LET w == walk(t, processSentence(prefix), 1)
         IN  IF ~w.found THEN <<>>
             ELSE rankSuggestions(findAllWords(t, w.node), limit)

\* Mutant: recordSelection does not compare the stored text with the sentence.
recordSelectionRoot_noTextCheck(t, sentence, time) ==
    IF ~Truthy(sentence) THEN t
    ELSE LET w == walk(t, processSentence(sentence), 1)
         IN  IF ~w.found THEN t
             ELSE IF t[w.node].isEndOfWord
                  THEN [t EXCEPT ![w.node] =
                           [@ EXCEPT !.frequency = @ + 1, !.lastUsed = time]]
                  ELSE t

\* Mutant: recordSelection adds 2 to the frequency.
recordSelectionRoot_addsTwo(t, sentence, time) ==
    IF ~Truthy(sentence) THEN t
    ELSE LET w == walk(t, processSentence(sentence), 1)
         IN  IF ~w.found THEN t
             ELSE IF t[w.node].isEndOfWord /\ t[w.node].fullSentence = sentence
                  THEN [t EXCEPT ![w.node] =
                           [@ EXCEPT !.frequency = @ + 2, !.lastUsed = time]]
                  ELSE t

\* EnhancedTrie.recordSelection(sentence): the tree after the call.
recordSelectionRoot(t, sentence, time) ==
    IF ~Truthy(sentence) THEN t
    ELSE LET w == walk(t, processSentence(sentence), 1)
         IN  IF ~w.found THEN t
             ELSE IF t[w.node].isEndOfWord /\ t[w.node].fullSentence = sentence
                  THEN [t EXCEPT ![w.node] =
                           [@ EXCEPT !.frequency = @ + 1, !.lastUsed = time]]
                  ELSE t

\* countUniqueEntries(): the number of nodes with isEndOfWord.
RECURSIVE countNodes(_, _)
RECURSIVE countInChildren(_, _, _)
countNodes(t, p) ==
    (IF t[p].isEndOfWord THEN 1 ELSE 0) + countInChildren(t, p, 1)
countInChildren(t, p, i) ==
    IF i > Len(t[p].children) THEN 0
    ELSE countNodes(t, Append(p, t[p].children[i])) + countInChildren(t, p, i + 1)

countUniqueEntries(t) == countNodes(t, <<>>)

\* countTotalNodes(): the number of nodes, the root included.
RECURSIVE countTotalNodesHelper(_, _)
RECURSIVE countTotalInChildren(_, _, _)
countTotalNodesHelper(t, p) == 1 + countTotalInChildren(t, p, 1)
countTotalInChildren(t, p, i) ==
    IF i > Len(t[p].children) THEN 0
    ELSE countTotalNodesHelper(t, Append(p, t[p].children[i]))
         + countTotalInChildren(t, p, i + 1)

countTotalNodes(t) == countTotalNodesHelper(t, <<>>)

-----------------------------------------------------------------------------
(* fuzzy-matcher.js *)

\* The alphabet of addEdits, 'abcdefghijklmnopqrstuvwxyz0123456789 ', cut down
\* to a letter of the model's sentences, a letter that is in none, and the space.
chars == <<"a", "b", " ">>

\* Set.prototype.add on a Set kept in insertion order.
setAdd(set, x) == IF x \in Range(set) THEN set ELSE Append(set, x)

\* set.add(item) for each of the items, in order.
RECURSIVE setAddAll(_, _, _)
setAddAll(set, items, i) ==
    IF i > Len(items) THEN set
    ELSE IF items[i] \in Range(set) THEN setAddAll(set, items, i + 1)
    ELSE setAddAll(setAdd(set, items[i]), items, i + 1)

\* Mutant: a deletion drops two characters.
deletions_dropsTwo(word) ==
    [i \in 1..Len(word) |-> sliceTo(word, 0, i - 1) \o sliceFrom(word, i + 1)]

\* The four loops of addEdits, each as the strings it adds, in order.
deletions(word) ==
    [i \in 1..Len(word) |-> sliceTo(word, 0, i - 1) \o sliceFrom(word, i)]

transpositions(word) ==
    [i \in 1..(Len(word) - 1) |->
        sliceTo(word, 0, i - 1) \o <<word[i + 1], word[i]>> \o sliceFrom(word, i + 1)]

replacements(word) ==
    [n \in 1..(Len(word) * Len(chars)) |->
        LET i == (n - 1) \div Len(chars)
            char == chars[((n - 1) % Len(chars)) + 1]
        IN  sliceTo(word, 0, i) \o <<char>> \o sliceFrom(word, i + 1)]

\* Mutant: the insertion loop stops before the end of the word (i < length).
insertions_notAtEnd(word) ==
    [n \in 1..(Len(word) * Len(chars)) |->
        LET i == (n - 1) \div Len(chars)
            char == chars[((n - 1) % Len(chars)) + 1]
        IN  sliceTo(word, 0, i) \o <<char>> \o sliceFrom(word, i)]

insertions(word) ==
    [n \in 1..((Len(word) + 1) * Len(chars)) |->
        LET i == (n - 1) \div Len(chars)
            char == chars[((n - 1) % Len(chars)) + 1]
        IN  sliceTo(word, 0, i) \o <<char>> \o sliceFrom(word, i)]

\* addEdits(word, variations): the Set after the call.
addEdits(word, variations) ==
    setAddAll(variations,
              deletions(word) \o transpositions(word) \o replacements(word)
                  \o insertions(word),
              1)

\* for (const currentWord of currentWords) this.addEdits(currentWord, variations)
RECURSIVE addEditsOfEach(_, _, _)
addEditsOfEach(variations, currentWords, j) ==
    IF j > Len(currentWords) THEN variations
    ELSE addEditsOfEach(addEdits(currentWords[j], variations), currentWords, j + 1)

\* for (let i = 1; i <= this.maxDistance; i++)
RECURSIVE variationRounds(_, _, _)
variationRounds(variations, i, k) ==
    IF i > k THEN variations
    ELSE variationRounds(addEditsOfEach(variations, variations, 1), i + 1, k)

\* getVariations(word) of a matcher whose maxDistance is k: the Set, in
\* insertion order.
getVariations(word, k) ==
    IF ~Truthy(word) \/ k <= 0 THEN <<word>>
    ELSE variationRounds(<<word>>, 1, k)

\* constructor(maxDistance = 2), in the matcher and in the orchestrator
DefaultMaxDistance == 2

\* The queries the lookup actions are called with.
Queries == Strings(QueryChars, MaxQueryLen)

\* Queries of up to two characters, for the lookups of the orchestrator alone.
LongQueries ==
    {<<>>, <<"a">>, <<"A">>, <<"b">>, <<"a", "b">>, <<"b", "a">>, <<"b", "b">>,
     <<"A", "b">>}

\* getVariations for the matcher the orchestrator holds: the variations of
\* the model's queries are computed once and looked up afterwards.
VariationTable ==
    {[query |-> query, k |-> k, variations |-> getVariations(query, k)] :
        query \in Queries, k \in 0..DefaultMaxDistance}

LongVariationTable ==
    {[query |-> query, k |-> k, variations |-> getVariations(query, k)] :
        query \in LongQueries, k \in 0..MaxLookupK}

variationsOf(query, k) ==
    IF k \in 0..DefaultMaxDistance /\ query \in Queries
    THEN (CHOOSE e \in VariationTable : e.query = query /\ e.k = k).variations
    ELSE IF k \in 0..MaxLookupK /\ query \in LongQueries
    THEN (CHOOSE e \in LongVariationTable : e.query = query /\ e.k = k).variations
    ELSE getVariations(query, k)

Min3(x, y, z) == Min({x, y, z})

\* Mutant: the substitution cost is 1 even for equal characters.
RECURSIVE fillMatrix_costAlwaysOne(_, _, _, _, _)
fillMatrix_costAlwaysOne(dp, s1, s2, i, j) ==
    IF i > Len(s1) THEN dp
    ELSE IF j > Len(s2) THEN fillMatrix_costAlwaysOne(dp, s1, s2, i + 1, 1)
    ELSE LET cell == Min3(dp[i - 1][j] + 1, dp[i][j - 1] + 1, dp[i - 1][j - 1] + 1)
         IN  fillMatrix_costAlwaysOne([dp EXCEPT ![i][j] = cell], s1, s2, i, j + 1)

\* Mutant: the deletion case dp[i - 1][j] + 1 is left out of the minimum.
RECURSIVE fillMatrix_noDeletion(_, _, _, _, _)
fillMatrix_noDeletion(dp, s1, s2, i, j) ==
    IF i > Len(s1) THEN dp
    ELSE IF j > Len(s2) THEN fillMatrix_noDeletion(dp, s1, s2, i + 1, 1)
    ELSE LET cost == IF s1[i] = s2[j] THEN 0 ELSE 1
             cell == Min({dp[i][j - 1] + 1, dp[i - 1][j - 1] + cost})
         IN  fillMatrix_noDeletion([dp EXCEPT ![i][j] = cell], s1, s2, i, j + 1)

\* The two nested loops of levenshteinDistance filling dp, row by row.
RECURSIVE fillMatrix(_, _, _, _, _)
fillMatrix(dp, s1, s2, i, j) ==
    IF i > Len(s1) THEN dp
    ELSE IF j > Len(s2) THEN fillMatrix(dp, s1, s2, i + 1, 1)
    ELSE LET cost == IF s1[i] = s2[j] THEN 0 ELSE 1
             cell == Min3(dp[i - 1][j] + 1, dp[i][j - 1] + 1, dp[i - 1][j - 1] + cost)
         IN  fillMatrix([dp EXCEPT ![i][j] = cell], s1, s2, i, j + 1)

\* Mutant: the early return for an empty s1 gives the length of s1, not of s2.
levenshteinDistance_emptyFirst(s1, s2) ==
    IF s1 = s2 THEN 0
    ELSE IF ~Truthy(s1) THEN Len(s1)
    ELSE IF ~Truthy(s2) THEN Len(s1)
    ELSE LET m == Len(s1)
             n == Len(s2)
             dp0 == [i \in 0..m |-> [j \in 0..n |->
                        IF j = 0 THEN i ELSE IF i = 0 THEN j ELSE 0]]
         IN  fillMatrix(dp0, s1, s2, 1, 1)[m][n]

\* levenshteinDistance(s1, s2)
levenshteinDistance(s1, s2) ==
    IF s1 = s2 THEN 0
    ELSE IF ~Truthy(s1) THEN Len(s2)
    ELSE IF ~Truthy(s2) THEN Len(s1)
    ELSE LET m == Len(s1)
             n == Len(s2)
             dp0 == [i \in 0..m |-> [j \in 0..n |->
                        IF j = 0 THEN i ELSE IF i = 0 THEN j ELSE 0]]
         IN  fillMatrix(dp0, s1, s2, 1, 1)[m][n]

\* calculateSimilarity(original, match): distance / maxLen as a fraction.
calculateSimilarity(original, match) ==
    LET s1 == toLowerCase(original)
        s2 == toLowerCase(match)
        maxLen == Max({Len(s1), Len(s2)})
    IN  IF maxLen = 0 THEN [num |-> 0, den |-> 1]
        ELSE [num |-> levenshteinDistance(s1, s2), den |-> maxLen]

\* (a, b) => a.score - b.score, by its sign
byScore(a, b) == a.score.num * b.score.den - b.score.num * a.score.den

\* The comparator of rankMatches on every pair of the array.
byScoreAll(seq) ==
    [i \in 1..Len(seq) |-> [j \in 1..Len(seq) |-> byScore(seq[i], seq[j])]]

\* rankMatches(query, candidates): candidates are strings.
rankMatches(query, candidates) ==
    IF ~Truthy(query) \/ Len(candidates) = 0 THEN <<>>
    ELSE LET withScores == [i \in 1..Len(candidates) |->
                               [text |-> candidates[i],
                                score |-> calculateSimilarity(query, candidates[i])]]
             sorted == sort(withScores, byScoreAll(withScores))
         IN  [i \in 1..Len(sorted) |-> sorted[i].text]

\* The loop of findBestMatchingVariation over the variations.
RECURSIVE bestOver(_, _, _, _, _)
bestOver(bestMatch, query, text, variations, i) ==
    IF i > Len(variations) THEN bestMatch
    ELSE IF variations[i] = query THEN bestOver(bestMatch, query, text, variations, i + 1)
    ELSE LET distance == levenshteinDistance(toLowerCase(variations[i]), toLowerCase(text))
         IN  IF distance < bestMatch.distance
             THEN bestOver([variation |-> variations[i], distance |-> distance],
                           query, text, variations, i + 1)
             ELSE bestOver(bestMatch, query, text, variations, i + 1)

\* findBestMatchingVariation(query, text) of a matcher whose maxDistance is k.
findBestMatchingVariation(query, text, k) ==
    bestOver([variation |-> query,
              distance |-> levenshteinDistance(toLowerCase(query), toLowerCase(text))],
             query, text, variationsOf(query, k), 1)

\* rankMatchesWithInfo(query, candidates): candidates are {text, frequency,
\* variation} objects.
rankMatchesWithInfo(query, candidates, k) ==
    IF ~Truthy(query) \/ Len(candidates) = 0 THEN <<>>
    ELSE LET withScores == [i \in 1..Len(candidates) |->
                LET matchInfo == findBestMatchingVariation(query, candidates[i].text, k)
                IN  [text |-> candidates[i].text,
                     frequency |-> candidates[i].frequency,
                     variation |-> candidates[i].variation,
                     score |-> [num |-> matchInfo.distance,
                                den |-> Max({Len(query), Len(candidates[i].text)})],
                     matchInfo |-> [distance |-> matchInfo.distance,
                                    matchedVariation |-> matchInfo.variation]]]
         IN  sort(withScores, byScoreAll(withScores))

-----------------------------------------------------------------------------
(* script.js: class FuzzyTrieAutocomplete *)

\* autocomplete(query, limit = 10)
DefaultLimit == 10

\* The methods class EnhancedTrie defines.
EnhancedTrieMethods ==
    {"insert", "autocomplete", "processSentence", "findAllWords", "rankSuggestions",
     "recordSelection", "getStats", "countUniqueEntries", "countNodes",
     "estimateMemoryUsage", "countTotalNodes", "countTotalNodesHelper"}

\* Mutant: insert tests the sentence only, not the trimmed sentence.
fuzzyInsertReturns_noTrim(sentence) == Truthy(sentence)

\* FuzzyTrieAutocomplete.insert(sentence): its return value.
fuzzyInsertReturns(sentence) == Truthy(sentence) /\ Truthy(trim(sentence))

\* variations.forEach(...) of autocomplete: each variation probes the trie and
\* the hits are mapped to {text, frequency, variation}. The map callback calls
\* this.trie.getFrequency, which EnhancedTrie does not define: mapping a
\* non-empty list throws TypeError, mapping an empty one calls nothing.
RECURSIVE collectSuggestions(_, _, _, _, _)
collectSuggestions(t, variations, limit, i, allSuggestions) ==
    IF i > Len(variations) THEN [threw |-> FALSE, all |-> allSuggestions]
    ELSE LET suggestions == trieAutocomplete(t, variations[i], limit)
         IN  CASE Len(suggestions) = 0 ->
                    collectSuggestions(t, variations, limit, i + 1, allSuggestions)
               [] "getFrequency" \notin EnhancedTrieMethods ->
                    [threw |-> TRUE, all |-> allSuggestions]

\* The variations this.trie.autocomplete is called with by the forEach of
\* autocomplete, in order: every variation up to the one whose callback throws.
RECURSIVE probedVariations(_, _, _, _)
probedVariations(t, variations, limit, i) ==
    IF i > Len(variations) THEN <<>>
    ELSE IF Len(trieAutocomplete(t, variations[i], limit)) = 0
         THEN <<variations[i]>> \o probedVariations(t, variations, limit, i + 1)
         ELSE <<variations[i]>>

\* The probes FuzzyTrieAutocomplete.autocomplete(query, limit) makes.
fuzzyProbes(t, k, query, limit) ==
    IF ~Truthy(query) THEN <<>>
    ELSE probedVariations(t, variationsOf(query, k), limit, 1)

\* allSuggestions.forEach(...) filling uniqueMap: a text keeps its place in the
\* Map, its value is replaced by an item of strictly higher frequency.
RECURSIVE uniqueByText(_, _, _)
uniqueByText(uniqueMap, allSuggestions, i) ==
    IF i > Len(allSuggestions) THEN uniqueMap
    ELSE LET item == allSuggestions[i]
             at == {n \in 1..Len(uniqueMap) : uniqueMap[n].text = item.text}
         IN  IF at = {} THEN uniqueByText(Append(uniqueMap, item), allSuggestions, i + 1)
             ELSE LET n == CHOOSE n \in at : TRUE
                  IN  IF uniqueMap[n].frequency < item.frequency
                      THEN uniqueByText([uniqueMap EXCEPT ![n] = item], allSuggestions, i + 1)
                      ELSE uniqueByText(uniqueMap, allSuggestions, i + 1)

\* The comparator of the final sort: frequency descending, then
\* matchInfo.distance ascending.
byFrequencyThenDistance(a, b) ==
    IF b.frequency # a.frequency THEN b.frequency - a.frequency
    ELSE a.matchInfo.distance - b.matchInfo.distance

\* The comparator of the final sort on every pair of the array.
byFrequencyThenDistanceAll(seq) ==
    [i \in 1..Len(seq) |-> [j \in 1..Len(seq) |-> byFrequencyThenDistance(seq[i], seq[j])]]

\* FuzzyTrieAutocomplete.autocomplete(query, limit) of a matcher whose
\* maxDistance is k: the list returned, or that the call threw.
fuzzyAutocomplete(t, k, query, limit) ==
    IF ~Truthy(query) THEN [threw |-> FALSE, value |-> <<>>]
    ELSE LET variations == variationsOf(query, k)
             collected == collectSuggestions(t, variations, limit, 1, <<>>)
         IN  IF collected.threw THEN [threw |-> TRUE, value |-> <<>>]
             ELSE LET uniqueSuggestions == uniqueByText(<<>>, collected.all, 1)
                      ranked == rankMatchesWithInfo(query, uniqueSuggestions, k)
                      rankedSuggestions ==
                          sort(ranked, byFrequencyThenDistanceAll(ranked))
                  IN  [threw |-> FALSE, value |-> slice0(rankedSuggestions, limit)]

\* Mutant: every probe of the earlier autocomplete collects from the root,
\* whatever its variation.
RECURSIVE collectTexts_fromRoot(_, _, _, _)
collectTexts_fromRoot(t, variations, limit, i) ==
    IF i > Len(variations) THEN <<>>
    ELSE rankSuggestions(findAllWords(t, <<>>), limit)
         \o collectTexts_fromRoot(t, variations, limit, i + 1)

\* variations.forEach(...) of the earlier autocomplete: the texts every
\* variation's probe returns, appended in order.
RECURSIVE collectTexts(_, _, _, _)
collectTexts(t, variations, limit, i) ==
    IF i > Len(variations) THEN <<>>
    ELSE trieAutocomplete(t, variations[i], limit)
         \o collectTexts(t, variations, limit, i + 1)

\* The earlier FuzzyTrieAutocomplete.autocomplete(query, limit): probes,
\* de-duplicates through a Set, ranks by similarity to the query.
fuzzyAutocompleteEarlier(t, k, query, limit) ==
    IF ~Truthy(query) THEN <<>>
    ELSE LET variations == variationsOf(query, k)
             allSuggestions == collectTexts(t, variations, limit, 1)
             uniqueSuggestions == setAddAll(<<>>, allSuggestions, 1)
         IN  slice0(rankMatches(query, uniqueSuggestions), limit)

-----------------------------------------------------------------------------
(* The calls a host makes. *)

Sentences == Strings(SentenceChars, MaxLen)
Limits == 0..MaxLimit \cup {DefaultLimit}

NoResult == [kind |-> "none", value |-> <<>>]
Call(name, arg, limit) == [name |-> name, arg |-> arg, limit |-> limit]
NoCall == Call("none", <<>>, 0)

\* The host is between two calls: the core is synchronous, a call is made
\* once the one before it has returned and its result has been taken.
Idle == lastOp = NoCall

\* The history after one more insert / recordSelection call: whether every
\* call so far inserted one and the same sentence, and then which.
NextOnlyInserted(name, sentence) ==
    IF name = "insert" /\ onlyInserted.same
                       /\ (ops = 0 \/ onlyInserted.sentence = sentence)
    THEN [same |-> TRUE, sentence |-> sentence]
    ELSE [same |-> FALSE, sentence |-> <<>>]

\* trie.insert(sentence), called on the trie itself.
TrieInsert(sentence) ==
    /\ Idle
    /\ ops < MaxOps
    /\ root' = insertRoot(root, sentence, now)
    /\ totalInsertions' = insertCount(totalInsertions, sentence)
    /\ ops' = ops + 1
    /\ onlyInserted' = NextOnlyInserted("insert", sentence)
    /\ lastOp' = Call("trie.insert", sentence, 0)
    /\ result' = [kind |-> "undefined", value |-> <<>>]
    /\ UNCHANGED <<maxDistance, now, word1, word2, word3, distanceArg>>

\* fuzzyAutocomplete.insert(sentence)
FuzzyInsert(sentence) ==
    /\ Idle
    /\ ops < MaxOps
    /\ IF fuzzyInsertReturns(sentence)
       THEN /\ root' = insertRoot(root, sentence, now)
            /\ totalInsertions' = insertCount(totalInsertions, sentence)
            /\ result' = [kind |-> "true", value |-> <<>>]
       ELSE /\ UNCHANGED <<root, totalInsertions>>
            /\ result' = [kind |-> "false", value |-> <<>>]
    /\ ops' = ops + 1
    /\ onlyInserted' = NextOnlyInserted("insert", sentence)
    /\ lastOp' = Call("insert", sentence, 0)
    /\ UNCHANGED <<maxDistance, now, word1, word2, word3, distanceArg>>

\* fuzzyAutocomplete.recordSelection(sentence), which is
\* trie.recordSelection(sentence)
RecordSelection(sentence) ==
    /\ Idle
    /\ ops < MaxOps
    /\ root' = recordSelectionRoot(root, sentence, now)
    /\ ops' = ops + 1
    /\ onlyInserted' = NextOnlyInserted("recordSelection", sentence)
    /\ lastOp' = Call("recordSelection", sentence, 0)
    /\ result' = [kind |-> "undefined", value |-> <<>>]
    /\ UNCHANGED <<totalInsertions, maxDistance, now, word1, word2, word3, distanceArg>>

\* Mutant: a lookup counts as a use of the entry at the key of its prefix.
TrieAutocomplete_recordsUse(prefix, limit) ==
    /\ Idle
    /\ lastOp' = Call("trie.autocomplete", prefix, limit)
    /\ result' = [kind |-> "list", value |-> trieAutocomplete(root, prefix, limit)]
    /\ root' = recordSelectionRoot_noTextCheck(root, prefix, now)
    /\ UNCHANGED <<totalInsertions, maxDistance, now, ops, onlyInserted,
                   word1, word2, word3, distanceArg>>

\* trie.autocomplete(prefix, limit)
TrieAutocomplete(prefix, limit) ==
    /\ Idle
    /\ lastOp' = Call("trie.autocomplete", prefix, limit)
    /\ result' = [kind |-> "list", value |-> trieAutocomplete(root, prefix, limit)]
    /\ UNCHANGED <<root, totalInsertions, maxDistance, now, ops, onlyInserted,
                   word1, word2, word3, distanceArg>>

\* fuzzyAutocomplete.autocomplete(query, limit)
FuzzyAutocomplete(query, limit) ==
    /\ Idle
    /\ lastOp' = Call("autocomplete", query, limit)
    /\ LET r == fuzzyAutocomplete(root, maxDistance, query, limit)
       IN  result' = [kind |-> IF r.threw THEN "TypeError" ELSE "list",
                      value |-> r.value]
    /\ UNCHANGED <<root, totalInsertions, maxDistance, now, ops, onlyInserted,
                   word1, word2, word3, distanceArg>>

\* fuzzyAutocomplete.autocomplete(query, limit), the earlier version
FuzzyAutocompleteEarlier(query, limit) ==
    /\ Idle
    /\ lastOp' = Call("autocomplete.earlier", query, limit)
    /\ result' = [kind |-> "list",
                  value |-> fuzzyAutocompleteEarlier(root, maxDistance, query, limit)]
    /\ UNCHANGED <<root, totalInsertions, maxDistance, now, ops, onlyInserted,
                   word1, word2, word3, distanceArg>>

\* The host takes the result of the call that returned.
Return ==
    /\ ~Idle
    /\ lastOp' = NoCall
    /\ result' = NoResult
    /\ UNCHANGED <<root, totalInsertions, maxDistance, now, ops, onlyInserted,
                   word1, word2, word3, distanceArg>>

\* Date.now() moves on.
Tick ==
    /\ Idle
    /\ now <= MaxTime
    /\ now' = now + 1
    /\ UNCHANGED <<root, totalInsertions, maxDistance, ops, onlyInserted, lastOp,
                   result, word1, word2, word3, distanceArg>>

\* new FuzzyTrieAutocomplete(maxDistance)
InitTrie ==
    /\ root = EmptyRoot
    /\ totalInsertions = 0
    /\ now = 1
    /\ ops = 0
    /\ onlyInserted = [same |-> TRUE, sentence |-> <<>>]
    /\ lastOp = NoCall
    /\ result = NoResult

Init ==
    /\ InitTrie
    /\ maxDistance = DefaultMaxDistance
    /\ word1 = <<>>
    /\ word2 = <<>>
    /\ word3 = <<>>
    /\ distanceArg = 0

Next ==
    \/ \E sentence \in Sentences : TrieInsert(sentence)
    \/ \E sentence \in Sentences : FuzzyInsert(sentence)
    \/ \E sentence \in Sentences : RecordSelection(sentence)
    \/ \E prefix \in Queries, limit \in Limits : TrieAutocomplete(prefix, limit)
    \/ \E query \in Queries, limit \in Limits : FuzzyAutocomplete(query, limit)
    \/ \E query \in Queries, limit \in Limits : FuzzyAutocompleteEarlier(query, limit)
    \/ Return
    \/ Tick

Spec == Init /\ [][Next]_vars

\* A host that reaches the trie through the orchestrator only:
\* fuzzyAutocomplete.insert, .recordSelection and .autocomplete.
NextOrchestrator ==
    \/ \E sentence \in Sentences : FuzzyInsert(sentence)
    \/ \E sentence \in Sentences : RecordSelection(sentence)
    \/ \E query \in Queries, limit \in Limits : FuzzyAutocomplete(query, limit)
    \/ \E query \in Queries, limit \in Limits : FuzzyAutocompleteEarlier(query, limit)
    \/ Return
    \/ Tick

SpecOrchestrator == Init /\ [][NextOrchestrator]_vars

\* An orchestrator built with a maxDistance of 0 up to MaxLookupK, asked with
\* queries of up to two characters.
InitFuzzyLookup ==
    /\ InitTrie
    /\ maxDistance \in 0..MaxLookupK
    /\ word1 = <<>>
    /\ word2 = <<>>
    /\ word3 = <<>>
    /\ distanceArg = 0

NextFuzzyLookup ==
    \/ \E sentence \in Sentences : FuzzyInsert(sentence)
    \/ \E sentence \in Sentences : RecordSelection(sentence)
    \/ \E query \in LongQueries, limit \in Limits : FuzzyAutocomplete(query, limit)
    \/ \E query \in LongQueries, limit \in Limits : FuzzyAutocompleteEarlier(query, limit)
    \/ Return
    \/ Tick

SpecFuzzyLookup == InitFuzzyLookup /\ [][NextFuzzyLookup]_vars

-----------------------------------------------------------------------------
(* data-manager.js: serializeTrie and deserializeTrie *)

\* x || d for a number and for a string
NumberOr(x, d) == IF x = 0 THEN d ELSE x
StringOr(x, d) == IF x = <<>> THEN d ELSE x

\* The keys of an object filled by assigning them in this order.
RECURSIVE keysAdded(_, _, _)
keysAdded(children, keys, i) ==
    IF i > Len(keys) THEN children
    ELSE keysAdded(addKey(children, keys[i]), keys, i + 1)

\* serializeNode(node): fullSentence, frequency and lastUsed are written for
\* a terminal node only.
serializeNode(node, time) ==
    IF node.isEndOfWord
    THEN [children |-> keysAdded(<<>>, node.children, 1),
          isEndOfWord |-> node.isEndOfWord,
          fullSentence |-> node.fullSentence,
          frequency |-> NumberOr(node.frequency, 1),
          lastUsed |-> NumberOr(node.lastUsed, time)]
    ELSE [children |-> keysAdded(<<>>, node.children, 1),
          isEndOfWord |-> node.isEndOfWord]

\* serializeTrie(trie): the serialized nodes by their paths, and the counter.
serializeTrie(t, n, time) ==
    [root |-> [p \in DOMAIN t |-> serializeNode(t[p], time)],
     totalInsertions |-> NumberOr(n, 0)]

\* deserializeNode(serialized, node) on a new TrieNode
deserializeNode(serialized, time) ==
    IF serialized.isEndOfWord
    THEN [TrieNode EXCEPT !.isEndOfWord = serialized.isEndOfWord,
                          !.fullSentence = StringOr(serialized.fullSentence, <<>>),
                          !.frequency = NumberOr(serialized.frequency, 1),
                          !.lastUsed = NumberOr(serialized.lastUsed, time),
                          !.children = keysAdded(<<>>, serialized.children, 1)]
    ELSE [TrieNode EXCEPT !.isEndOfWord = FALSE,
                          !.children = keysAdded(<<>>, serialized.children, 1)]

\* deserializeTrie(data). data-manager.js neither imports nor declares
\* EnhancedTrie and TrieNode: new EnhancedTrie() throws ReferenceError unless
\* the page that loads the file has put the two classes in scope.
deserializeTrie(data, time, inScope) ==
    IF ~inScope THEN [threw |-> TRUE, root |-> EmptyRoot, totalInsertions |-> 0]
    ELSE [threw |-> FALSE,
          root |-> [p \in DOMAIN data.root |-> deserializeNode(data.root[p], time)],
          totalInsertions |-> NumberOr(data.totalInsertions, 0)]

\* dataManager.deserializeTrie(dataManager.serializeTrie(trie)) on the trie of
\* the orchestrator
RoundTrip(inScope) ==
    /\ Idle
    /\ lastOp' = Call("deserializeTrie", <<>>, 0)
    /\ LET trie == deserializeTrie(serializeTrie(root, totalInsertions, now), now, inScope)
       IN  result' = IF trie.threw
                     THEN [kind |-> "ReferenceError", value |-> <<>>]
                     ELSE [kind |-> "trie",
                           value |-> [root |-> trie.root,
                                      totalInsertions |-> trie.totalInsertions]]
    /\ UNCHANGED <<root, totalInsertions, maxDistance, now, ops, onlyInserted,
                   word1, word2, word3, distanceArg>>

NextPersistence ==
    \/ Next
    \/ \E inScope \in BOOLEAN : RoundTrip(inScope)

SpecPersistence == Init /\ [][NextPersistence]_vars

-----------------------------------------------------------------------------
(* The matcher's pure functions, applied to inputs drawn at the start. *)

Words == Strings(WordChars, MaxWordLen)
VarWords == Strings(VarChars, MaxVarLen)

InitDistance ==
    /\ InitTrie
    /\ maxDistance = DefaultMaxDistance
    /\ word1 \in Words
    /\ word2 \in Words
    /\ word3 \in Words
    /\ distanceArg = 0

\* fuzzyMatcher.levenshteinDistance on the pairs of the three words
LevenshteinDistance ==
    /\ Idle
    /\ lastOp' = Call("levenshteinDistance", word1, 0)
    /\ result' = [kind |-> "distances",
                  value |-> [ab |-> levenshteinDistance(word1, word2),
                             ba |-> levenshteinDistance(word2, word1),
                             ac |-> levenshteinDistance(word1, word3),
                             cb |-> levenshteinDistance(word3, word2),
                             aa |-> levenshteinDistance(word1, word1)]]
    /\ UNCHANGED <<root, totalInsertions, maxDistance, now, ops, onlyInserted,
                   word1, word2, word3, distanceArg>>

SpecDistance == InitDistance /\ [][LevenshteinDistance]_vars

InitVariations ==
    /\ InitTrie
    /\ maxDistance = DefaultMaxDistance
    /\ word1 \in VarWords
    /\ word2 = <<>>
    /\ word3 = <<>>
    /\ distanceArg \in 0..MaxK

\* new FuzzyMatcher(distanceArg).getVariations(word1)
GetVariations ==
    /\ Idle
    /\ lastOp' = Call("getVariations", word1, 0)
    /\ result' = [kind |-> "set", value |-> getVariations(word1, distanceArg)]
    /\ UNCHANGED <<root, totalInsertions, maxDistance, now, ops, onlyInserted,
                   word1, word2, word3, distanceArg>>

SpecVariations == InitVariations /\ [][GetVariations]_vars

\* p is a prefix of s: s.startsWith(p)
IsPrefixOf(p, s) == Len(p) <= Len(s) /\ SubSeq(s, 1, Len(p)) = p

\* The stored texts a probe can return: sentences as insert stores them.
Texts == {text \in Strings(VarChars, MaxTextLen) : Truthy(text) /\ trim(text) = text}

\* A hit of autocomplete(word1): the probe with the variation word3 of the
\* query found the stored text word2, whose key starts with the variation.
InitTagging ==
    /\ InitTrie
    /\ maxDistance = DefaultMaxDistance
    /\ word1 \in Queries
    /\ word3 \in Range(variationsOf(word1, DefaultMaxDistance))
    /\ Truthy(word3)
    /\ word2 \in Texts
    /\ IsPrefixOf(processSentence(word3), processSentence(word2))
    /\ distanceArg = 0

\* fuzzyMatcher.rankMatchesWithInfo(query, [{text, frequency, variation}])
RankMatchesWithInfo ==
    /\ Idle
    /\ lastOp' = Call("rankMatchesWithInfo", word1, 0)
    /\ result' = [kind |-> "ranked",
                  value |-> rankMatchesWithInfo(
                                word1,
                                <<[text |-> word2, frequency |-> 1, variation |-> word3]>>,
                                maxDistance)]
    /\ UNCHANGED <<root, totalInsertions, maxDistance, now, ops, onlyInserted,
                   word1, word2, word3, distanceArg>>

SpecTagging == InitTagging /\ [][RankMatchesWithInfo]_vars

-----------------------------------------------------------------------------
(* What the claims are stated with. *)

AllChars == SentenceChars \cup QueryChars \cup {"B"}

\* The strings that differ from p only in letter case.
CaseVariants(p) ==
    {q \in [1..Len(p) -> AllChars] : \A i \in 1..Len(p) : LowerChar(q[i]) = LowerChar(p[i])}

\* The non-empty prefixes of s.
Prefixes(s) == {SubSeq(s, 1, n) : n \in 1..Len(s)}

\* The paths of the terminal nodes.
TerminalPaths(t) == {p \in DOMAIN t : t[p].isEndOfWord}

InsertNames == {"trie.insert", "insert"}

\* The last call was an insert that stored its sentence.
Inserted ==
    \/ lastOp.name = "trie.insert" /\ Truthy(lastOp.arg)
    \/ lastOp.name = "insert" /\ result.kind = "true"

\* Unit-cost Levenshtein distance by its recurrence on the first characters.
RECURSIVE Levenshtein(_, _)
Levenshtein(a, b) ==
    IF a = <<>> THEN Len(b)
    ELSE IF b = <<>> THEN Len(a)
    ELSE Min3(Levenshtein(Tail(a), b) + 1,
              Levenshtein(a, Tail(b)) + 1,
              Levenshtein(Tail(a), Tail(b)) + (IF Head(a) = Head(b) THEN 0 ELSE 1))

-----------------------------------------------------------------------------
(* C1 *)

\* C1: after insert(s) of a non-blank sentence s, a prefix lookup with any
\* non-empty prefix of lower(trim(s)), in any letter case, and a limit of at
\* least the number of stored entries, returns trim(s).
C1_InsertLookupRoundTrip ==
    (Inserted /\ Truthy(trim(lastOp.arg))) =>
        \A p \in Prefixes(toLowerCase(trim(lastOp.arg))) :
            \A q \in CaseVariants(p) :
                \A limit \in {countUniqueEntries(root), DefaultLimit} :
                    trim(lastOp.arg) \in Range(trieAutocomplete(root, q, limit))

-----------------------------------------------------------------------------
(* C2 *)

LookupLimits == 0..(MaxLimit + 1) \cup {DefaultLimit}

\* C2: a prefix lookup returns the same list for two prefixes that differ
\* only in letter case, whatever the trie and the limit: here for the prefix
\* of the call that returned and for that prefix extended by one character.
C2_CaseInsensitiveLookup ==
    lastOp.name = "trie.autocomplete" =>
        /\ \A q \in CaseVariants(lastOp.arg) :
              trieAutocomplete(root, q, lastOp.limit) = result.value
        /\ \A c \in SentenceChars, limit \in LookupLimits :
              \A q \in CaseVariants(Append(lastOp.arg, c)) :
                  trieAutocomplete(root, q, limit)
                      = trieAutocomplete(root, Append(lastOp.arg, c), limit)

\* An upper-case prefix found the entries stored under its lower-case path.
C2_Witness ==
    /\ lastOp.name = "trie.autocomplete"
    /\ lastOp.arg = <<"A">>
    /\ Len(result.value) >= 1
    /\ trieAutocomplete(root, <<"a", "A">>, DefaultLimit) # <<>>

-----------------------------------------------------------------------------
(* C3 *)

\* Every call so far inserted the same non-blank sentence.
SameSentenceOnly ==
    onlyInserted.same /\ ops >= 1 /\ Truthy(trim(onlyInserted.sentence))

C3_Step ==
    SameSentenceOnly' =>
        LET key == processSentence(onlyInserted'.sentence)
        IN  /\ countUniqueEntries(root') = 1
            /\ root'[key].isEndOfWord
            /\ root'[key].frequency = ops'
            /\ (ops >= 1 /\ ops' = ops + 1) =>
                  /\ DOMAIN root' = DOMAIN root
                  /\ countTotalNodes(root') = countTotalNodes(root)
                  /\ \A p \in DOMAIN root : p # key => root'[p] = root[p]
                  /\ root'[key] = [root[key] EXCEPT !.frequency = @ + 1,
                                                    !.lastUsed = root'[key].lastUsed]
                  /\ totalInsertions' = totalInsertions + 1

\* C3: inserting the same non-blank sentence n times into an empty trie, with
\* no selections, leaves exactly one terminal entry, of frequency n; every
\* insert after the first creates no node and changes only that entry's
\* frequency and lastUsed and the trie's totalInsertions.
C3_FrequencyAccumulation == [][C3_Step]_vars

\* The same sentence was inserted MaxOps times and its entry counts them.
C3_Witness ==
    /\ SameSentenceOnly
    /\ ops = MaxOps
    /\ ops >= 2
    /\ root[processSentence(onlyInserted.sentence)].frequency = ops
    /\ countUniqueEntries(root) = 1

-----------------------------------------------------------------------------
(* C4 *)

C4_Step ==
    \A p \in TerminalPaths(root) :
        (/\ Idle
         /\ lastOp'.name = "recordSelection"
         /\ Truthy(root[p].fullSentence)
         /\ lastOp'.arg = root[p].fullSentence) =>
            /\ root'[p].frequency = root[p].frequency + 1
            /\ root'[p].lastUsed = now
            /\ DOMAIN root' = DOMAIN root
            /\ totalInsertions' = totalInsertions
            /\ \A other \in DOMAIN root : other # p => root'[other] = root[other]

\* C4: recordSelection with the stored text of an entry raises that entry's
\* frequency by exactly 1 and refreshes its recency, creates no node, and
\* leaves totalInsertions and every other entry unchanged.
C4_SelectionFeedback == [][C4_Step]_vars

-----------------------------------------------------------------------------
(* C5 *)

\* The index of the text in the list of candidates, 0 if it is not in it.
IndexOfText(list, text) ==
    IF \E i \in 1..Len(list) : list[i].text = text
    THEN Min({i \in 1..Len(list) : list[i].text = text})
    ELSE 0

\* C5: the list FuzzyTrieAutocomplete.autocomplete returns is ordered by
\* frequency descending, then by edit distance ascending; in particular, of two
\* stored entries under the query's own path (both at distance 0), the one
\* with the strictly higher frequency is returned before the other.
C5_RankingOrder ==
    lastOp.name = "autocomplete" =>
        /\ result.kind = "list" =>
              \A i, j \in 1..Len(result.value) :
                  i < j =>
                      \/ result.value[i].frequency > result.value[j].frequency
                      \/ /\ result.value[i].frequency = result.value[j].frequency
                         /\ result.value[i].matchInfo.distance
                                <= result.value[j].matchInfo.distance
        /\ \A p1, p2 \in TerminalPaths(root) :
              (/\ lastOp.limit >= 2
               /\ Truthy(lastOp.arg)
               /\ IsPrefixOf(processSentence(lastOp.arg), p1)
               /\ IsPrefixOf(processSentence(lastOp.arg), p2)
               /\ root[p1].fullSentence # root[p2].fullSentence
               /\ root[p1].frequency > root[p2].frequency) =>
                  /\ result.kind = "list"
                  /\ IndexOfText(result.value, root[p1].fullSentence) >= 1
                  /\ IndexOfText(result.value, root[p1].fullSentence)
                         < IndexOfText(result.value, root[p2].fullSentence)

-----------------------------------------------------------------------------
(* C6 *)

LookupNames == {"trie.autocomplete", "autocomplete", "autocomplete.earlier"}

\* C6: a lookup, of the trie or of the orchestrator, returns at most limit
\* results.
C6_LimitRespected ==
    lastOp.name \in LookupNames =>
        /\ Len(result.value) <= lastOp.limit
        /\ \A limit \in LookupLimits :
              Len(trieAutocomplete(root, lastOp.arg, limit)) <= limit

\* A lookup returned exactly limit results although more entries match.
C6_Witness ==
    /\ lastOp.name = "trie.autocomplete"
    /\ lastOp.limit = 1
    /\ Len(result.value) = 1
    /\ Len(trieAutocomplete(root, lastOp.arg, DefaultLimit)) >= 2

-----------------------------------------------------------------------------
(* C7 *)

\* The strings over the alphabet of addEdits that can be within distance k of
\* the word: a distance is at least the difference of the lengths.
Targets(word, k) == Strings(Range(chars), Len(word) + k)

\* Every string over the alphabet within distance distanceArg of word1 is
\* among the variations returned.
CoversBall ==
    \A target \in Targets(word1, distanceArg) :
        Levenshtein(word1, target) <= distanceArg => target \in Range(result.value)

\* C7 as claimed: for every word, the empty word included, and every
\* maxDistance k >= 0, getVariations holds every string over the alphabet
\* whose Levenshtein distance from the word is at most k, and the word itself.
C7_VariationSupersetAnyWord ==
    lastOp.name = "getVariations" =>
        /\ word1 \in Range(result.value)
        /\ CoversBall

\* C7, amended: for every non-empty word and every maxDistance k >= 0,
\* getVariations holds every string over the alphabet whose Levenshtein
\* distance from the word is at most k; the word itself is a member for
\* every word, the empty one included.
C7_VariationSuperset ==
    lastOp.name = "getVariations" =>
        /\ word1 \in Range(result.value)
        /\ Truthy(word1) => CoversBall

\* Variations of a two-letter word hold a string at distance exactly 2.
C7_Witness ==
    /\ lastOp.name = "getVariations"
    /\ Len(word1) = 2
    /\ distanceArg = 2
    /\ \E target \in Targets(word1, distanceArg) :
          /\ Levenshtein(word1, target) = 2
          /\ target \in Range(result.value)

-----------------------------------------------------------------------------
(* C8 *)

\* C8: levenshteinDistance(a, b) is the unit-cost Levenshtein distance of a
\* and b, empty strings included: distance(a, a) = 0 and
\* distance("", b) = distance(b, "") = len(b).
C8_DistanceIsLevenshtein ==
    lastOp.name = "levenshteinDistance" =>
        /\ result.value.ab = Levenshtein(word1, word2)
        /\ result.value.ac = Levenshtein(word1, word3)
        /\ result.value.aa = 0
        /\ word1 = <<>> => result.value.ab = Len(word2) /\ result.value.ba = Len(word2)

\* A distance the matrix decides: two different non-empty words of which one
\* needs a substitution and an insertion.
C8_Witness ==
    /\ lastOp.name = "levenshteinDistance"
    /\ word1 = <<"a", "b">>
    /\ word2 = <<"b", "b", "a">>
    /\ result.value.ab = 2

-----------------------------------------------------------------------------
(* C9 *)

\* C9: levenshteinDistance(a, b) = levenshteinDistance(b, a).
C9_DistanceSymmetric ==
    lastOp.name = "levenshteinDistance" => result.value.ab = result.value.ba

\* Two words of different lengths, neither empty, at the same distance both ways.
C9_Witness ==
    /\ lastOp.name = "levenshteinDistance"
    /\ Len(word1) = 1
    /\ Len(word2) = 3
    /\ result.value.ab = 3
    /\ result.value.ba = 3

-----------------------------------------------------------------------------
(* C10 *)

\* C10: levenshteinDistance(a, b) <= levenshteinDistance(a, c)
\*                                   + levenshteinDistance(c, b).
C10_DistanceTriangle ==
    lastOp.name = "levenshteinDistance" =>
        result.value.ab <= result.value.ac + result.value.cb

\* The inequality is tight through a third word different from both.
C10_Witness ==
    /\ lastOp.name = "levenshteinDistance"
    /\ word3 # word1
    /\ word3 # word2
    /\ result.value.ab = 3
    /\ result.value.ac = 1
    /\ result.value.cb = 2

-----------------------------------------------------------------------------
(* C11 *)

C11_Step ==
    (Idle /\ lastOp'.name = "insert") =>
        /\ result'.kind \in {"true", "false"}
        /\ result'.kind = "true" <=> Truthy(trim(lastOp'.arg))
        /\ result'.kind = "false" =>
              /\ root' = root
              /\ totalInsertions' = totalInsertions
        /\ result'.kind = "true" => totalInsertions' = totalInsertions + 1

\* C11: FuzzyTrieAutocomplete.insert(s) returns false for an empty or
\* whitespace-only s and then leaves the nodes, frequencies, stored texts and
\* totalInsertions as they were; it returns true exactly when trim(s) is not
\* empty, and then totalInsertions grows by exactly 1.
C11_OrchestratorBlankInsert == [][C11_Step]_vars

\* A whitespace-only sentence was refused by a trie that holds an entry.
C11_Witness ==
    /\ lastOp.name = "insert"
    /\ lastOp.arg = <<" ", " ">>
    /\ result.kind = "false"
    /\ totalInsertions >= 1
    /\ countUniqueEntries(root) >= 1

-----------------------------------------------------------------------------
(* C12 *)

\* The sentence is empty or holds white space only.
Blank(sentence) == ~Truthy(trim(sentence))

C12_Step ==
    (Idle /\ lastOp'.name = "trie.insert" /\ Blank(lastOp'.arg)) =>
        /\ DOMAIN root' = DOMAIN root
        /\ TerminalPaths(root') = TerminalPaths(root)
        /\ \A p \in DOMAIN root : root'[p].frequency = root[p].frequency
        /\ totalInsertions' = totalInsertions

\* C12: EnhancedTrie.insert(s) with s empty or whitespace-only creates no
\* node, makes no node terminal, changes no frequency and leaves
\* totalInsertions unchanged.
C12_TrieBlankInsert == [][C12_Step]_vars

-----------------------------------------------------------------------------
(* C13 *)

\* C13: FuzzyTrieAutocomplete.autocomplete("") and
\* EnhancedTrie.autocomplete("") return an empty list, whatever the trie and
\* the limit, without a fault and without a probe of the trie.
C13_EmptyQuery ==
    (lastOp.name \in LookupNames /\ lastOp.arg = <<>>) =>
        /\ result.kind = "list"
        /\ result.value = <<>>
        /\ fuzzyProbes(root, maxDistance, lastOp.arg, lastOp.limit) = <<>>
        /\ \A limit \in LookupLimits :
              /\ trieAutocomplete(root, <<>>, limit) = <<>>
              /\ fuzzyAutocomplete(root, maxDistance, <<>>, limit)
                     = [threw |-> FALSE, value |-> <<>>]

\* The empty query was looked up in a trie that holds two entries.
C13_Witness ==
    /\ lastOp.name = "autocomplete"
    /\ lastOp.arg = <<>>
    /\ lastOp.limit = DefaultLimit
    /\ countUniqueEntries(root) >= 2
    /\ result.value = <<>>

-----------------------------------------------------------------------------
(* C14 *)

\* Some stored key starts with the key.
StoredUnder(t, key) == \E p \in TerminalPaths(t) : IsPrefixOf(key, p)

\* C14: EnhancedTrie.autocomplete(p) returns a list, which is empty when no
\* stored key starts with lower(p); it is non-empty only if the whole of
\* lower(p) is a path from the root. Stated for the lookup that returned and
\* for every prefix of up to two characters.
C14_PrefixMiss ==
    lastOp.name = "trie.autocomplete" =>
        /\ result.kind = "list"
        /\ result.value # <<>> => processSentence(lastOp.arg) \in DOMAIN root
        /\ ~StoredUnder(root, processSentence(lastOp.arg)) => result.value = <<>>
        /\ \A q \in Strings(AllChars, 2) :
              LET found == trieAutocomplete(root, q, DefaultLimit)
              IN  /\ found # <<>> => processSentence(q) \in DOMAIN root
                  /\ ~StoredUnder(root, processSentence(q)) => found = <<>>

\* A prefix that leaves the stored paths at its first character, and one that
\* leaves them at its second, found nothing in a trie that holds two entries.
C14_Witness ==
    /\ lastOp.name = "trie.autocomplete"
    /\ lastOp.arg = <<"b">>
    /\ lastOp.limit = DefaultLimit
    /\ result.value = <<>>
    /\ countUniqueEntries(root) >= 2
    /\ <<"a">> \in DOMAIN root
    /\ trieAutocomplete(root, <<"a", "b">>, DefaultLimit) = <<>>

-----------------------------------------------------------------------------
(* C15 *)

\* recordSelection(sentence) finds no entry of that text: the lower-cased
\* sentence is no path, or the node reached is not terminal, or its stored
\* text is another one.
SelectionNotFound(t, sentence) ==
    LET key == processSentence(sentence)
    IN  \/ key \notin DOMAIN t
        \/ ~t[key].isEndOfWord
        \/ t[key].fullSentence # sentence

C15_Step ==
    (/\ Idle
     /\ lastOp'.name = "recordSelection"
     /\ SelectionNotFound(root, lastOp'.arg)) =>
        /\ root' = root
        /\ totalInsertions' = totalInsertions
        /\ result'.kind = "undefined"

\* C15: recordSelection of a sentence whose lower-cased form is no path, or
\* ends on a non-terminal node, or ends on an entry whose stored text differs
\* from the sentence, changes no frequency, lastUsed, stored text or node and
\* not totalInsertions, and raises no fault.
C15_SelectionNotFoundNoOp == [][C15_Step]_vars

\* The entry stored as "A" was selected as "a" and kept its frequency of 1.
C15_Witness ==
    /\ lastOp.name = "recordSelection"
    /\ lastOp.arg = <<"a">>
    /\ <<"a">> \in TerminalPaths(root)
    /\ root[<<"a">>].fullSentence = <<"A">>
    /\ root[<<"a">>].frequency = 1
    /\ ops = 2

-----------------------------------------------------------------------------
(* C16 *)

\* The hits of the probes of autocomplete(query, limit): <<i, j>> is the j-th
\* text the probe with the i-th variation returns.
Hits(t, k, query, limit) ==
    LET variations == variationsOf(query, k)
    IN  {h \in (1..Len(variations)) \X (1..MaxOps) :
            h[2] <= Len(trieAutocomplete(t, variations[h[1]], limit))}

HitText(t, k, query, limit, h) ==
    trieAutocomplete(t, variationsOf(query, k)[h[1]], limit)[h[2]]

\* The highest frequency among the stored entries of that text.
HighestFrequency(t, text) ==
    Max({t[p].frequency : p \in {q \in TerminalPaths(t) : t[q].fullSentence = text}})

\* C16: the list FuzzyTrieAutocomplete.autocomplete returns holds no two
\* candidates of the same text; a text that several probes found (with a limit
\* that cuts nothing off) is in the list exactly once, with the highest
\* frequency it was found with.
C16_MergeByText ==
    (lastOp.name = "autocomplete" /\ Truthy(lastOp.arg)) =>
        /\ result.kind = "list" =>
              \A i, j \in 1..Len(result.value) :
                  i # j => result.value[i].text # result.value[j].text
        /\ lastOp.limit = DefaultLimit =>
              LET hits == Hits(root, maxDistance, lastOp.arg, lastOp.limit)
              IN  \A h1, h2 \in hits :
                      LET text == HitText(root, maxDistance, lastOp.arg, lastOp.limit, h1)
                      IN  (/\ h1 # h2
                           /\ text = HitText(root, maxDistance, lastOp.arg, lastOp.limit, h2)) =>
                              /\ result.kind = "list"
                              /\ Cardinality({i \in 1..Len(result.value) :
                                                 result.value[i].text = text}) = 1
                              /\ \A i \in 1..Len(result.value) :
                                    result.value[i].text = text =>
                                        result.value[i].frequency
                                            = HighestFrequency(root, text)

-----------------------------------------------------------------------------
(* C17 *)

\* The terminal nodes at and below the node of the key.
TerminalsUnder(t, key) == {p \in TerminalPaths(t) : IsPrefixOf(key, p)}

\* The list holds one text per terminal node at or below the key.
OnePerTerminal(t, key, texts) ==
    /\ Len(texts) = Cardinality(TerminalsUnder(t, key))
    /\ \A p \in TerminalsUnder(t, key) :
          Cardinality({i \in 1..Len(texts) : texts[i] = t[p].fullSentence})
              = Cardinality({q \in TerminalsUnder(t, key) :
                                t[q].fullSentence = t[p].fullSentence})

\* The lookup made walked its whole lower-cased prefix.
LookupFound ==
    /\ lastOp.name = "trie.autocomplete"
    /\ Truthy(lastOp.arg)
    /\ processSentence(lastOp.arg) \in DOMAIN root

\* C17 as claimed: when the lower-cased prefix is a path, the prefix lookup
\* the orchestrator makes for a variation, EnhancedTrie.autocomplete(prefix,
\* limit), returns every terminal node at or below the node reached, one
\* candidate per terminal, none left out, whatever the limit of at least 1.
C17_FullSubtreeAnyLimit ==
    (LookupFound /\ lastOp.limit >= 1) =>
        OnePerTerminal(root, processSentence(lastOp.arg), result.value)

\* C17, amended: when the lower-cased prefix is a path, findAllWords collects
\* every terminal node at or below the node reached, one candidate per
\* terminal; EnhancedTrie.autocomplete(prefix, limit) returns them all when
\* limit is at least their number, and otherwise limit of them.
C17_FullSubtree ==
    LookupFound =>
        LET key == processSentence(lastOp.arg)
            all == findAllWords(root, key)
            n == Cardinality(TerminalsUnder(root, key))
        IN  /\ OnePerTerminal(root, key, [i \in 1..Len(all) |-> all[i].text])
            /\ \A i \in 1..Len(all) :
                  \E p \in TerminalsUnder(root, key) :
                      all[i] = [text |-> root[p].fullSentence,
                                frequency |-> root[p].frequency,
                                lastUsed |-> root[p].lastUsed]
            /\ Len(result.value) = Min({lastOp.limit, n})
            /\ Range(result.value) \subseteq {all[i].text : i \in 1..Len(all)}
            /\ lastOp.limit >= n => OnePerTerminal(root, key, result.value)

\* The lookup returned the entry of the node reached and two below it.
C17_Witness ==
    /\ LookupFound
    /\ lastOp.limit = DefaultLimit
    /\ processSentence(lastOp.arg) \in TerminalPaths(root)
    /\ Len(result.value) = 3

-----------------------------------------------------------------------------
(* C18 *)

-----------------------------------------------------------------------------
(* C19 *)

OrchestratorNames == {"insert", "autocomplete", "recordSelection"}

\* What each method of the orchestrator returns when it completes.
CompletesNormally ==
    /\ lastOp.name = "insert" => result.kind \in {"true", "false"}
    /\ lastOp.name = "autocomplete" => result.kind = "list"
    /\ lastOp.name = "recordSelection" => result.kind = "undefined"

\* C19: on every trie insert and recordSelection calls can build and for
\* every string argument, FuzzyTrieAutocomplete.insert, autocomplete and
\* recordSelection complete with a boolean, a list or no result and never
\* throw (a call of a method the trie does not have throws TypeError).
C19_NoThrownFaults ==
    lastOp.name \in OrchestratorNames => CompletesNormally

-----------------------------------------------------------------------------
(* C20 *)

\* Terminal nodes have a frequency of at least 1; the others have frequency 0
\* and an empty stored text.
TerminalMetadata(t) ==
    \A p \in DOMAIN t :
        /\ t[p].isEndOfWord => t[p].frequency >= 1
        /\ ~t[p].isEndOfWord => t[p].frequency = 0 /\ t[p].fullSentence = <<>>

C20_Step ==
    /\ TerminalMetadata(root)
    /\ TerminalMetadata(root')
    /\ \A p \in DOMAIN root :
          /\ p \in DOMAIN root'
          /\ root'[p].frequency >= root[p].frequency
          /\ root[p].isEndOfWord => root'[p].isEndOfWord

\* C20: in every state insert and recordSelection calls reach, every terminal
\* node has frequency >= 1 and every other node has frequency 0 and an empty
\* stored text; no step lowers a node's frequency, removes a node or turns a
\* terminal node into a non-terminal one.
C20_TerminalMetadata == [][C20_Step]_vars

\* A selection raised an entry's frequency to 2 below a non-terminal node.
C20_Witness ==
    /\ lastOp.name = "recordSelection"
    /\ \E p \in TerminalPaths(root) :
          /\ Len(p) = 2
          /\ root[p].frequency = 2
          /\ ~root[SubSeq(p, 1, 1)].isEndOfWord

-----------------------------------------------------------------------------
(* C21 *)

C21_Step ==
    /\ totalInsertions >= 0
    /\ totalInsertions' >= totalInsertions
    /\ IF Idle /\ Inserted'
       THEN totalInsertions' = totalInsertions + 1
       ELSE totalInsertions' = totalInsertions

\* C21: totalInsertions counts the insert calls that inserted a sentence: it
\* starts at 0, every such call adds exactly 1 to it, whether the sentence was
\* stored before or not, and no other step (an insert that is refused, a
\* recordSelection, a lookup) changes it; so it never decreases.
C21_TotalInsertionsMonotonic == [][C21_Step]_vars

\* A sentence was inserted twice and then selected: two insertions, one entry.
C21_Witness ==
    /\ lastOp.name = "recordSelection"
    /\ totalInsertions = 2
    /\ countUniqueEntries(root) = 1
    /\ \E p \in TerminalPaths(root) : root[p].frequency = 3

-----------------------------------------------------------------------------
(* C22 *)

\* C22: deserializeTrie(serializeTrie(trie)) gives a trie with the same
\* nodes, the same children keys, isEndOfWord, fullSentence, frequency and
\* lastUsed in every node and the same totalInsertions, on which every lookup,
\* insert and selection gives what it gives on the live trie.
C22_SerializationRoundTrip ==
    lastOp.name = "deserializeTrie" =>
        /\ result.kind = "trie"
        /\ DOMAIN result.value.root = DOMAIN root
        /\ \A p \in DOMAIN root : result.value.root[p] = root[p]
        /\ result.value.totalInsertions = totalInsertions
        /\ \A q \in Queries, limit \in Limits :
              trieAutocomplete(result.value.root, q, limit)
                  = trieAutocomplete(root, q, limit)
        /\ \A sentence \in Sentences :
              /\ insertRoot(result.value.root, sentence, now)
                     = insertRoot(root, sentence, now)
              /\ recordSelectionRoot(result.value.root, sentence, now)
                     = recordSelectionRoot(root, sentence, now)

-----------------------------------------------------------------------------
(* C23 *)

\* The entry at p goes strictly before the entry at q: higher frequency, or
\* the same frequency and used more recently.
RanksBefore(t, p, q) ==
    \/ t[p].frequency > t[q].frequency
    \/ t[p].frequency = t[q].frequency /\ t[p].lastUsed > t[q].lastUsed

\* The list is the texts of the best Min(limit, number of entries) entries
\* at or below the key, each entry once, best first.
RankedTopOf(t, key, limit, list) ==
    LET T == TerminalsUnder(t, key)
        n == Min({limit, Cardinality(T)})
    IN  /\ Len(list) = n
        /\ \E ps \in [1..n -> T] :
              /\ \A i, j \in 1..n : i # j => ps[i] # ps[j]
              /\ \A i \in 1..n : list[i] = t[ps[i]].fullSentence
              /\ \A i, j \in 1..n : i < j => ~RanksBefore(t, ps[j], ps[i])
              /\ \A q \in T \ {ps[i] : i \in 1..n} :
                    \A i \in 1..n : ~RanksBefore(t, q, ps[i])

\* C23: EnhancedTrie.autocomplete(prefix, limit) returns the texts of the
\* entries at or below the key of the prefix ordered by frequency descending
\* and, among equal frequencies, by lastUsed descending, cut to limit (10
\* when not given); so an entry whose frequency exceeds another's, whether by
\* inserts or by selections, is ahead of it.
C23_TrieLevelRanking ==
    (lastOp.name = "trie.autocomplete" /\ Truthy(lastOp.arg)) =>
        /\ RankedTopOf(root, processSentence(lastOp.arg), lastOp.limit, result.value)
        /\ \A p, q \in TerminalsUnder(root, processSentence(lastOp.arg)) :
              (/\ root[p].frequency > root[q].frequency
               /\ root[p].fullSentence # root[q].fullSentence
               /\ root[q].fullSentence \in Range(result.value))
                  => /\ root[p].fullSentence \in Range(result.value)
                     /\ \A j \in 1..Len(result.value) :
                            result.value[j] = root[q].fullSentence =>
                                \E i \in 1..(j - 1) :
                                    result.value[i] = root[p].fullSentence

\* "aa" was inserted before "a" and then selected: it has the higher
\* frequency and is first in the lookup with the default limit.
C23_Witness ==
    /\ lastOp.name = "trie.autocomplete"
    /\ lastOp.limit = DefaultLimit
    /\ totalInsertions = 2
    /\ <<"a">> \in TerminalPaths(root)
    /\ <<"a", "a">> \in TerminalPaths(root)
    /\ root[<<"a">>].frequency = 1
    /\ root[<<"a", "a">>].frequency = 2
    /\ root[<<"a">>].lastUsed = 2
    /\ result.value = << <<"a", "a">>, <<"a">> >>

-----------------------------------------------------------------------------
(* C24 *)

\* How many times the text is in the list.
Occurrences(list, text) == Cardinality({i \in 1..Len(list) : list[i] = text})

\* An insert of a sentence whose key is a terminal node that stores another
\* text: no node is added, the node stores the trimmed text of this insert,
\* its frequency counts this insert too, and the lookups through the node
\* return the later text for it and no longer the earlier one.
C24_Step ==
    LET sentence == lastOp'.arg
        key == processSentence(sentence)
    IN  (/\ Idle
         /\ Inserted'
         /\ key \in TerminalPaths(root)
         /\ root[key].fullSentence # trim(sentence))
            => /\ DOMAIN root' = DOMAIN root
               /\ TerminalPaths(root') = TerminalPaths(root)
               /\ root'[key].fullSentence = trim(sentence)
               /\ root'[key].frequency = root[key].frequency + 1
               /\ \A prefix \in Queries :
                     (Truthy(prefix) /\ IsPrefixOf(processSentence(prefix), key)) =>
                         LET list == trieAutocomplete(root', prefix, DefaultLimit)
                             under == TerminalsUnder(root', processSentence(prefix))
                         IN  /\ trim(sentence) \in Range(list)
                             /\ Occurrences(list, root[key].fullSentence)
                                    = Cardinality({q \in under \ {key} :
                                         root'[q].fullSentence = root[key].fullSentence})

\* C24: two sentences of different text and the same lower-cased key share
\* one terminal node; it stores the trimmed text of the later insert, its
\* frequency counts both inserts, and lookups return only the later text.
C24_LastWriterWins == [][C24_Step]_vars

\* Two inserts of different sentences made one entry: "a", then "A".
C24_Witness ==
    /\ lastOp.name \in InsertNames
    /\ lastOp.arg = <<"A">>
    /\ ops = 2
    /\ totalInsertions = 2
    /\ ~onlyInserted.same
    /\ TerminalPaths(root) = {<<"a">>}
    /\ root[<<"a">>].fullSentence = <<"A">>
    /\ root[<<"a">>].frequency = 2
    /\ trieAutocomplete(root, <<"a">>, DefaultLimit) = << <<"A">> >>

-----------------------------------------------------------------------------
(* C25 *)

\* A lookup leaves every node and the counter as they were, and the same
\* lookup made again on the trie it leaves ends the same way.
C25_Step ==
    (Idle /\ lastOp'.name \in LookupNames) =>
        /\ DOMAIN root' = DOMAIN root
        /\ \A p \in DOMAIN root :
              /\ root'[p].children = root[p].children
              /\ root'[p].isEndOfWord = root[p].isEndOfWord
              /\ root'[p].fullSentence = root[p].fullSentence
              /\ root'[p].frequency = root[p].frequency
              /\ root'[p].lastUsed = root[p].lastUsed
        /\ totalInsertions' = totalInsertions
        /\ lastOp'.name = "trie.autocomplete" =>
              result'.value = trieAutocomplete(root', lastOp'.arg, lastOp'.limit)
        /\ lastOp'.name = "autocomplete" =>
              LET again == fuzzyAutocomplete(root', maxDistance', lastOp'.arg, lastOp'.limit)
              IN  /\ again.threw = (result'.kind = "TypeError")
                  /\ again.value = result'.value
        /\ lastOp'.name = "autocomplete.earlier" =>
              result'.value = fuzzyAutocompleteEarlier(root', maxDistance', lastOp'.arg,
                                                       lastOp'.limit)

\* C25: EnhancedTrie.autocomplete and FuzzyTrieAutocomplete.autocomplete leave
\* the trie unchanged for any query and limit (no node created, no
\* isEndOfWord, fullSentence, frequency, lastUsed or totalInsertions value
\* changed), so the same lookup repeated at once returns the same list.
C25_LookupsReadOnly == [][C25_Step]_vars

\* A lookup that walked to a terminal node and returned two entries.
C25_Witness ==
    /\ lastOp.name = "trie.autocomplete"
    /\ processSentence(lastOp.arg) \in TerminalPaths(root)
    /\ Len(result.value) = 2
    /\ totalInsertions = 3

-----------------------------------------------------------------------------
(* C26 *)

\* Every terminal node's lower-cased stored text is its path, and no two
\* terminal nodes store the same text.
KeyTextConsistent(t) ==
    /\ \A p \in TerminalPaths(t) : toLowerCase(t[p].fullSentence) = p
    /\ \A p, q \in TerminalPaths(t) :
          p # q => t[p].fullSentence # t[q].fullSentence

\* C26: after any sequence of FuzzyTrieAutocomplete.insert and
\* recordSelection calls, the lower-cased stored text of every terminal node
\* equals its path, so two terminal nodes never store the same text.
C26_KeyTextConsistency == KeyTextConsistent(root)


-----------------------------------------------------------------------------
(* C27 *)

\* The sum of the frequencies of the terminal nodes in the set.
RECURSIVE SumOfFrequencies(_, _)
SumOfFrequencies(t, paths) ==
    IF paths = {} THEN 0
    ELSE LET p == CHOOSE q \in paths : TRUE
         IN  t[p].frequency + SumOfFrequencies(t, paths \ {p})

FrequencySum(t) == SumOfFrequencies(t, TerminalPaths(t))

\* The step is a recordSelection call that matched an entry.
SelectionMatched ==
    /\ Idle
    /\ lastOp'.name = "recordSelection"
    /\ ~SelectionNotFound(root, lastOp'.arg)

\* In every state the frequencies sum to totalInsertions plus at most the
\* number of calls that were no counted insert, and there are no more entries
\* than counted inserts; every step adds to the sum what it adds to
\* totalInsertions, and 1 more when it is a recordSelection that matched.
C27_Step ==
    /\ FrequencySum(root) >= totalInsertions
    /\ FrequencySum(root) <= totalInsertions + (ops - totalInsertions)
    /\ ops = 0 => FrequencySum(root) = 0 /\ totalInsertions = 0
    /\ countUniqueEntries(root) <= totalInsertions
    /\ FrequencySum(root') - FrequencySum(root)
          = (totalInsertions' - totalInsertions)
            + (IF SelectionMatched THEN 1 ELSE 0)

\* C27: from the empty trie on, the sum of the frequencies of all terminal
\* nodes equals totalInsertions plus the number of recordSelection calls that
\* matched an entry, so the number of unique entries never exceeds
\* totalInsertions.
C27_FrequencyConservation == [][C27_Step]_vars

\* Two entries inserted once each and one of them selected: the frequencies
\* sum to 3 with 2 insertions.
C27_Witness ==
    /\ lastOp.name = "recordSelection"
    /\ totalInsertions = 2
    /\ countUniqueEntries(root) = 2
    /\ FrequencySum(root) = 3

-----------------------------------------------------------------------------
(* C28 *)

\* The limits up to the one given.
LimitsUpTo(limit) == {l \in LookupLimits : l <= limit}

\* The later version: the lookup returns a list, and with any smaller limit
\* it returns the first elements of that list.
LaterTruncationCommutes ==
    lastOp.name = "autocomplete" =>
        /\ result.kind = "list"
        /\ \A l1 \in LimitsUpTo(lastOp.limit) :
              LET r == fuzzyAutocomplete(root, maxDistance, lastOp.arg, l1)
              IN  /\ ~r.threw
                  /\ r.value = slice0(result.value, l1)

\* The earlier version, ranked by similarity: the same, and the stored
\* sentence whose key is the lower-cased query is returned for a limit of at
\* least 1.
EarlierTruncationCommutes ==
    lastOp.name = "autocomplete.earlier" =>
        /\ \A l1 \in LimitsUpTo(lastOp.limit) :
              fuzzyAutocompleteEarlier(root, maxDistance, lastOp.arg, l1)
                  = slice0(result.value, l1)
        /\ (/\ lastOp.limit >= 1
            /\ Truthy(lastOp.arg)
            /\ processSentence(lastOp.arg) \in TerminalPaths(root))
               => root[processSentence(lastOp.arg)].fullSentence \in Range(result.value)

\* C28: for all limits 0 <= L1 <= L2, FuzzyTrieAutocomplete.autocomplete(q, L1)
\* is exactly the first L1 elements of autocomplete(q, L2), and a stored
\* sentence whose key is the lower-cased query is returned whenever the limit
\* is at least 1 under the similarity ranking.
C28_TruncationCommutes == LaterTruncationCommutes /\ EarlierTruncationCommutes

-----------------------------------------------------------------------------
(* C29 *)

\* The length of every variation is within bound of the length of the word.
LengthsWithin(word, variations, bound) ==
    \A v \in Range(variations) :
        /\ Len(word) - bound <= Len(v)
        /\ Len(v) <= Len(word) + bound

\* The distance of every variation from the word is at most the bound.
DistancesWithin(word, variations, bound) ==
    \A v \in Range(variations) : levenshteinDistance(word, v) <= bound

\* C29 as claimed: for every word and maxDistance k, every v in
\* getVariations(word) has levenshteinDistance(word, v) <= k and
\* len(word) - k <= len(v) <= len(word) + k.
C29_VariationsWithinDistance ==
    lastOp.name = "getVariations" =>
        /\ DistancesWithin(word1, result.value, distanceArg)
        /\ LengthsWithin(word1, result.value, distanceArg)

\* C29, amended: for every word and maxDistance k, every v in
\* getVariations(word) has len(word) - k <= len(v) <= len(word) + k and
\* levenshteinDistance(word, v) <= 2k: a transposition of two adjacent
\* characters is one edit of the generator and two of the distance.
C29_VariationsWithinBound ==
    lastOp.name = "getVariations" =>
        /\ LengthsWithin(word1, result.value, distanceArg)
        /\ DistancesWithin(word1, result.value, 2 * distanceArg)
        /\ \A v \in Range(result.value) :
              levenshteinDistance(word1, v) = Levenshtein(word1, v)

\* One round of edits reaches the transposed word, at distance 2, and words
\* one character shorter and longer.
C29_Witness ==
    /\ lastOp.name = "getVariations"
    /\ distanceArg = 1
    /\ word1 = <<"a", "b">>
    /\ <<"b", "a">> \in Range(result.value)
    /\ levenshteinDistance(word1, <<"b", "a">>) = 2
    /\ \E v \in Range(result.value) : Len(v) = 1
    /\ \E v \in Range(result.value) : Len(v) = 3

-----------------------------------------------------------------------------
(* C30 *)

\* Every text of the list is the stored text of a terminal node whose key
\* starts with the lower-cased form of a non-empty variation of the query.
SoundFor(t, k, query, texts) ==
    \A text \in Range(texts) :
        \E p \in TerminalPaths(t) :
            /\ t[p].fullSentence = text
            /\ \E v \in Range(variationsOf(query, k)) :
                  /\ Truthy(v)
                  /\ IsPrefixOf(toLowerCase(v), p)

\* The texts of the items the later version returns.
ItemTexts(items) == [i \in 1..Len(items) |-> items[i].text]

\* The texts a fuzzy lookup returned.
ReturnedTexts ==
    IF lastOp.name = "autocomplete" THEN ItemTexts(result.value) ELSE result.value

\* C30: every text returned by FuzzyTrieAutocomplete.autocomplete(q, limit)
\* is the stored text of a terminal node of the trie whose key starts with the
\* lower-cased form of a variation of q; nothing is returned that was never
\* inserted, and with maxDistance = 0 only entries whose key starts with
\* lower(q) are returned.
C30_FuzzySoundness ==
    (lastOp.name \in {"autocomplete", "autocomplete.earlier"} /\ result.kind = "list") =>
        /\ SoundFor(root, maxDistance, lastOp.arg, ReturnedTexts)
        /\ \A text \in Range(ReturnedTexts) : \E p \in TerminalPaths(root) : root[p].fullSentence = text
        /\ maxDistance = 0 =>
              \A text \in Range(ReturnedTexts) :
                  \E p \in TerminalPaths(root) :
                      /\ root[p].fullSentence = text
                      /\ IsPrefixOf(toLowerCase(lastOp.arg), p)

\* A lookup with maxDistance 1 for "ab" in a trie that holds " a" and "aa"
\* returned "aa", found under the variation "a", and not " a".
C30_Witness ==
    /\ lastOp.name = "autocomplete.earlier"
    /\ maxDistance = 1
    /\ lastOp.arg = <<"a", "b">>
    /\ <<" ", "a">> \in TerminalPaths(root)
    /\ <<"a", "a">> \in TerminalPaths(root)
    /\ result.value = << <<"a", "a">> >>

=============================================================================
